---- MODULE Spec2Model ----
(***************************************************************************)
(* State-machine model of the Simple-Telegram-Stock-Bot core:              *)
(*   - Router.find_symbols        (src/symbol_router.py)                   *)
(*   - Symbol.search_symbols      (src/functions.py)                       *)
(*   - Router.*_reply list routing (src/symbol_router.py)                  *)
(*   - Symbol.*_reply batch loops (src/functions.py)                       *)
(* Strings are sequences of one-character strings.                         *)
(***************************************************************************)
EXTENDS Integers, Sequences, FiniteSets, TLC

VARIABLES
    text,          \* find_symbols: the text argument of the last call
    stocks,        \* find_symbols: local `stocks` (set of matched tokens)
    coins,         \* find_symbols: local `coins`  (set of matched tokens)
    symbols,       \* find_symbols: the returned list
    raised,        \* find_symbols: TRUE when the call ended in an exception
    called,        \* find_symbols: TRUE once a call has been made
    stockList,     \* self.stock.symbol_list["symbol"].values
    cryptoList,    \* self.crypto.symbol_list["symbol"].values
    heap,          \* the DataFrame objects made by get_symbol_list, by identity
    cur,           \* Symbol.symbol_list: the identity of the current table
    symbol_ts,     \* Symbol.symbol_ts: when the table was fetched (hours)
    now,           \* datetime.now() (hours)
    searched_symbols, \* Symbol.searched_symbols: query -> cached result
    fetches,       \* number of get_symbol_list calls made by search_symbols
    lastSearch,    \* the last search_symbols call and what it returned
    th,            \* overlapping search_symbols calls: each caller's position and locals
    overlap,       \* TRUE once a call has started while another was under way
    routed,        \* the last Router.*_reply call: input list and returned list
    batch          \* the last Symbol.*_reply call (functions.py): input and outcome

findVars == <<text, stocks, coins, symbols, raised, called, stockList, cryptoList>>

searchVars == <<heap, cur, symbol_ts, now, searched_symbols, fetches, lastSearch>>

\* self.symbol_list: the current stock reference table
symbol_list == heap[cur]

concVars == <<th, overlap>>

vars == <<findVars, searchVars, concVars, routed, batch>>

-----------------------------------------------------------------------------
(* Bounds *)

MaxTextLen == 5      \* longest text given to find_symbols
MaxScanLen == 7      \* longest text given to the two regex scans alone
MaxRows == 12        \* most rows of a fetched reference table
MaxTime == 4         \* the clock stops after this many hours
NumCallers == 2      \* overlapping callers of search_symbols
MaxBatch == 3        \* longest list given to a Router reply operation

-----------------------------------------------------------------------------
(* Characters and case conversion (str.upper / str.lower) *)

Letters == {"a", "b", "c", "A", "B", "C"}
Chars == {"$", "a", "A", "b", " "}
ScanChars == {"$", "a", "b", " "}

upper(c) == CASE c = "a" -> "A" [] c = "b" -> "B" [] c = "c" -> "C" [] OTHER -> c
lower(c) == CASE c = "A" -> "a" [] c = "B" -> "b" [] c = "C" -> "c" [] OTHER -> c

Upper(s) == [i \in 1..Len(s) |-> upper(s[i])]
Lower(s) == [i \in 1..Len(s) |-> lower(s[i])]

StringsUpTo(alphabet, n) == UNION {[1..k -> alphabet] : k \in 0..n}

-----------------------------------------------------------------------------
(* The three regular expressions, each of the shape                        *)
(*     <prefix> <dollars x "$"> ( <1..maxLetters letters> )                *)
(* prefix "start_or_non_dollar" is the consuming group (?:^|[^\$]).        *)

STOCK_REGEX  == [prefix |-> "start_or_non_dollar", dollars |-> 1, maxLetters |-> 4]
CRYPTO_REGEX == [prefix |-> "none", dollars |-> 2, maxLetters |-> 9]
SYMBOL_REGEX == [prefix |-> "none", dollars |-> 1, maxLetters |-> 4]

NoMatch == [ok |-> FALSE]

\* Greedy [a-zA-Z]{0,max} at position i: the number of letters taken.
RECURSIVE RunLen(_, _, _)
RunLen(t, i, max) ==
    IF max = 0 \/ i > Len(t) \/ t[i] \notin Letters
    THEN 0
    ELSE 1 + RunLen(t, i + 1, max - 1)

\* <dollars x "$"> ( letters ) with the first "$" at position d.
TryDollars(re, t, d) ==
    LET first == d + re.dollars
        n     == RunLen(t, first, re.maxLetters)
    IN  IF /\ first - 1 <= Len(t)
           /\ \A k \in d..(first - 1) : t[k] = "$"
           /\ n > 0
        THEN [ok |-> TRUE, dollar |-> first - 1,
              tok |-> SubSeq(t, first, first + n - 1), end |-> first + n]
        ELSE NoMatch

\* re.match anchored at position s (1-based).  For the stock pattern the
\* alternative ^ is tried first and only matches at the start of the text;
\* the alternative [^\$] consumes the character at s.
MatchAt(re, t, s) ==
    IF re.prefix = "none"
    THEN TryDollars(re, t, s)
    ELSE LET alt1 == IF s = 1 THEN TryDollars(re, t, s) ELSE NoMatch
             alt2 == IF t[s] # "$" THEN TryDollars(re, t, s + 1) ELSE NoMatch
         IN  IF alt1.ok THEN alt1 ELSE alt2

\* re.findall: leftmost matches, non-overlapping, scanning resumes at the
\* end of the previous match.
RECURSIVE FindAllFrom(_, _, _)
FindAllFrom(re, t, pos) ==
    IF pos > Len(t)
    THEN <<>>
    ELSE LET m == MatchAt(re, t, pos)
         IN  IF m.ok
             THEN <<m>> \o FindAllFrom(re, t, m.end)
             ELSE FindAllFrom(re, t, pos + 1)

findall(re, t) == FindAllFrom(re, t, 1)

\* set(re.findall(regex, text))
TokenSet(matches) == {matches[i].tok : i \in 1..Len(matches)}

-----------------------------------------------------------------------------
(* The stock reference table (functions.py) *)

TTL == 3             \* timedelta(hours=3)
HeadRows == 5        \* DataFrame.head() default
MatchThreshold == 300
TopResults == 10     \* symbols.head(10)

Min(x, y) == IF x <= y THEN x ELSE y

TickerLetters == <<"A", "B", "C">>

\* The n-th ticker: A, B, C, AA, AB, AC, BA, ...
RECURSIVE TickerOf(_)
TickerOf(n) ==
    IF n <= 3
    THEN <<TickerLetters[n]>>
    ELSE TickerOf((n - 1) \div 3) \o <<TickerLetters[((n - 1) % 3) + 1]>>

\* One line "Symbol|Issue_Name|..." of the FINRA file, with the Description
\* column get_symbol_list derives from it.
Row(n) ==
    [Symbol |-> TickerOf(n),
     Issue_Name |-> TickerOf(n + 1),
     Description |-> TickerOf(n) \o <<":", " ">> \o TickerOf(n + 1),
     Match |-> 0]

\* What get_symbol_list can return: lines i..j of the file, no Match column.
Table(i, j) ==
    [cols |-> {"Symbol", "Issue_Name", "Description"},
     rows |-> [k \in 1..(j - i + 1) |-> Row(i + k - 1)]]

Tables ==
    {Table(w[1], w[2]) : w \in {v \in (1..MaxRows) \X (1..MaxRows) : v[1] <= v[2]}}

Queries == {<<"A">>, <<"a", "b">>, <<"C", "B">>, <<"b", "c", "a">>}

NotCached == [cached |-> FALSE, value |-> <<>>]

NoSearch ==
    [valid |-> FALSE, flip |-> 0, q |-> <<>>, hit |-> FALSE, stale |-> FALSE,
     fetched |-> FALSE, result |-> <<>>]

\* No search is under way and none has been made: the state right after
\* Symbol.__init__ has fetched the table.
SearchIdle ==
    /\ heap = <<Table(1, 1)>>
    /\ cur = 1
    /\ symbol_ts = 0
    /\ now = 0
    /\ searched_symbols = [q \in Queries |-> NotCached]
    /\ fetches = 0
    /\ lastSearch = NoSearch

Threads == 1..NumCallers

IdleCaller ==
    [pc |-> "idle", q |-> <<>>, alias |-> 0, ret |-> <<>>, stale |-> FALSE, miss |-> FALSE]

NoRoute == [valid |-> FALSE, op |-> "", input |-> <<>>, outcome |-> <<>>, output |-> <<>>]

NoBatch ==
    [valid |-> FALSE, op |-> "", symbols |-> <<>>, outcome |-> <<>>, raised |-> FALSE,
     messages |-> <<>>]

\* No overlapping search, no Router call and no batch call has been made.
NoCalls ==
    /\ th = [t \in Threads |-> IdleCaller]
    /\ overlap = FALSE
    /\ routed = NoRoute
    /\ batch = NoBatch

-----------------------------------------------------------------------------
(* Symbol objects *)

Stock(symbol) == [class |-> "Stock", symbol |-> symbol, id |-> symbol]
Coin(symbol)  == [class |-> "Coin", symbol |-> symbol]

\* Every order in which a for loop can visit the elements of a Python set.
Orderings(S) ==
    {f \in [1..Cardinality(S) -> S] : \A i, j \in 1..Cardinality(S) : i # j => f[i] # f[j]}

-----------------------------------------------------------------------------
(* Router.find_symbols *)

StockUniverse  == {<<"A">>, <<"B">>}
CryptoUniverse == {<<"a">>}

\* Mutant of ValidStocks: the membership test without .upper().
ValidStocks_NoUpper(found) == {s \in found : s \in stockList}

ValidStocks(found) == {s \in found : Upper(s) \in stockList}
ValidCoins(found)  == {c \in found : Lower(c) \in cryptoList}

find_symbols(t) ==
    LET st == TokenSet(findall(STOCK_REGEX, t))
        co == TokenSet(findall(CRYPTO_REGEX, t))
    IN  /\ ~called
        /\ text' = t
        /\ stocks' = st
        /\ coins' = co
        /\ called' = TRUE
        /\ \E so \in Orderings(ValidStocks(st)), cord \in Orderings(ValidCoins(co)),
              netOk \in BOOLEAN :
              \* Coin.__init__ calls get_data, whose two network calls raise
              \* when the provider cannot be reached.
              IF ValidCoins(co) # {} /\ ~netOk
              THEN /\ raised' = TRUE
                   /\ symbols' = <<>>
              ELSE /\ raised' = FALSE
                   /\ symbols' = [i \in 1..Len(so) |-> Stock(so[i])]
                                 \o [i \in 1..Len(cord) |-> Coin(Lower(cord[i]))]
        /\ UNCHANGED <<stockList, cryptoList>>
        /\ UNCHANGED <<searchVars, concVars, routed, batch>>

\* A message arrives while no call is under way.
FindSymbols == ~called /\ \E t \in StringsUpTo(Chars, MaxTextLen) : find_symbols(t)

\* The message handler returns; the bot waits for the next message.
Return ==
    /\ called
    /\ text' = <<>>
    /\ stocks' = {}
    /\ coins' = {}
    /\ symbols' = <<>>
    /\ raised' = FALSE
    /\ called' = FALSE
    /\ UNCHANGED <<stockList, cryptoList>>
    /\ UNCHANGED <<searchVars, concVars, routed, batch>>

\* Between two messages the reference lists are replaced by their providers'
\* refresh.
SetStockList == \E l \in SUBSET StockUniverse :
    /\ ~called
    /\ l # stockList
    /\ stockList' = l
    /\ UNCHANGED <<text, stocks, coins, symbols, raised, called, cryptoList>>
    /\ UNCHANGED <<searchVars, concVars, routed, batch>>

SetCryptoList == \E l \in SUBSET CryptoUniverse :
    /\ ~called
    /\ l # cryptoList
    /\ cryptoList' = l
    /\ UNCHANGED <<text, stocks, coins, symbols, raised, called, stockList>>
    /\ UNCHANGED <<searchVars, concVars, routed, batch>>

InitFind ==
    /\ text = <<>>
    /\ stocks = {}
    /\ coins = {}
    /\ symbols = <<>>
    /\ raised = FALSE
    /\ called = FALSE
    /\ stockList \in SUBSET StockUniverse
    /\ cryptoList \in SUBSET CryptoUniverse
    /\ SearchIdle
    /\ NoCalls

NextFind == FindSymbols \/ Return \/ SetStockList \/ SetCryptoList

SpecFind == InitFind /\ [][NextFind]_vars

-----------------------------------------------------------------------------
(* The two regex scans of find_symbols alone, on longer texts *)

Scan ==
    /\ ~called
    /\ stocks' = TokenSet(findall(STOCK_REGEX, text))
    /\ coins' = TokenSet(findall(CRYPTO_REGEX, text))
    /\ called' = TRUE
    /\ UNCHANGED <<text, symbols, raised, stockList, cryptoList>>
    /\ UNCHANGED <<searchVars, concVars, routed, batch>>

InitScan ==
    /\ text \in StringsUpTo(ScanChars, MaxScanLen)
    /\ stocks = {}
    /\ coins = {}
    /\ symbols = <<>>
    /\ raised = FALSE
    /\ called = FALSE
    /\ stockList = {}
    /\ cryptoList = {}
    /\ SearchIdle
    /\ NoCalls

NextScan == Scan

SpecScan == InitScan /\ [][NextScan]_vars

-----------------------------------------------------------------------------
(* fuzzywuzzy.fuzz over difflib.SequenceMatcher (no junk)                  *)

\* Length of the common run of a from i and b from j, inside a[..ahi], b[..bhi].
RECURSIVE CommonRun(_, _, _, _, _, _)
CommonRun(a, b, i, j, ahi, bhi) ==
    IF i > ahi \/ j > bhi \/ a[i] # b[j]
    THEN 0
    ELSE 1 + CommonRun(a, b, i + 1, j + 1, ahi, bhi)

\* Of the longest blocks, the earliest in a, then the earliest in b.
PickLongest(found, alo, blo) ==
    LET longest == {m \in found : \A o \in found : o[3] <= m[3]}
    IN  IF found = {}
        THEN <<alo, blo, 0>>
        ELSE CHOOSE m \in longest :
                \A o \in longest : m[1] < o[1] \/ (m[1] = o[1] /\ m[2] <= o[2])

\* SequenceMatcher.find_longest_match on a[alo..ahi], b[blo..bhi] (1-based,
\* inclusive): <<i, j, k>>, or <<alo, blo, 0>> when nothing matches.
find_longest_match(a, b, alo, ahi, blo, bhi) ==
    PickLongest({m \in {<<p[1], p[2], CommonRun(a, b, p[1], p[2], ahi, bhi)>> :
                          p \in (alo..ahi) \X (blo..bhi)} : m[3] > 0},
                alo, blo)

\* SequenceMatcher.get_matching_blocks without the closing dummy block: the
\* longest block m, then the blocks to its left and to its right.
RECURSIVE MatchingBlocks(_, _, _, _, _, _)
BlocksAround(a, b, alo, ahi, blo, bhi, m) ==
    IF m[3] = 0
    THEN <<>>
    ELSE (IF alo < m[1] /\ blo < m[2]
          THEN MatchingBlocks(a, b, alo, m[1] - 1, blo, m[2] - 1) ELSE <<>>)
         \o <<m>>
         \o (IF m[1] + m[3] <= ahi /\ m[2] + m[3] <= bhi
             THEN MatchingBlocks(a, b, m[1] + m[3], ahi, m[2] + m[3], bhi) ELSE <<>>)

MatchingBlocks(a, b, alo, ahi, blo, bhi) ==
    BlocksAround(a, b, alo, ahi, blo, bhi, find_longest_match(a, b, alo, ahi, blo, bhi))

get_matching_blocks(a, b) ==
    MatchingBlocks(a, b, 1, Len(a), 1, Len(b)) \o <<<<Len(a) + 1, Len(b) + 1, 0>>>>

RECURSIVE SumSizes(_, _)
SumSizes(blocks, n) ==
    IF n = 0 THEN 0 ELSE blocks[n][3] + SumSizes(blocks, n - 1)

\* SequenceMatcher.ratio() = 2.0 * M / T as the fraction <<2 * M, T>>.
RatioFraction(a, b) ==
    IF Len(a) + Len(b) = 0
    THEN <<1, 1>>
    ELSE <<2 * SumSizes(MatchingBlocks(a, b, 1, Len(a), 1, Len(b)),
                        Len(MatchingBlocks(a, b, 1, Len(a), 1, Len(b)))),
           Len(a) + Len(b)>>

\* Python 3 round(): half to even.
RoundHalfEven(n, d) ==
    IF 2 * (n % d) > d THEN (n \div d) + 1
    ELSE IF 2 * (n % d) < d THEN n \div d
    ELSE IF (n \div d) % 2 = 0 THEN n \div d ELSE (n \div d) + 1

\* utils.intr(100 * r) = int(round(100 * r))
intr100(fr) == RoundHalfEven(100 * fr[1], fr[2])

\* fuzz.ratio (check_empty_string returns 0 for an empty argument).
ratio(s1, s2) ==
    IF Len(s1) = 0 \/ Len(s2) = 0
    THEN 0
    ELSE intr100(RatioFraction(s1, s2))

FractionLess(x, y) == x[1] * y[2] < y[1] * x[2]

\* One pass of the loop of partial_ratio: the ratio of the shorter string
\* against the window of the longer one that block points at.
WindowRatio(shorter, longer, block) ==
    RatioFraction(shorter,
                  SubSeq(longer,
                         (IF block[2] - block[1] > 0 THEN block[2] - block[1] ELSE 0) + 1,
                         Min((IF block[2] - block[1] > 0 THEN block[2] - block[1] ELSE 0)
                                 + Len(shorter),
                             Len(longer))))

\* The result of the loop: 100 as soon as a window scores above .995, else
\* the best window.
BestWindow(scores) ==
    IF \E x \in scores : 1000 * x[1] > 995 * x[2]
    THEN 100
    ELSE intr100(CHOOSE x \in scores : \A y \in scores : ~FractionLess(x, y))

WindowScores(shorter, longer, blocks) ==
    {WindowRatio(shorter, longer, blocks[n]) : n \in 1..Len(blocks)}

PartialOrdered(shorter, longer) ==
    BestWindow(WindowScores(shorter, longer, get_matching_blocks(shorter, longer)))

\* fuzz.partial_ratio
partial_ratio(s1, s2) ==
    IF Len(s1) = 0 \/ Len(s2) = 0
    THEN 0
    ELSE IF Len(s1) <= Len(s2) THEN PartialOrdered(s1, s2) ELSE PartialOrdered(s2, s1)

-----------------------------------------------------------------------------
(* Symbol.search_symbols (functions.py) *)

\* The staleness test as written: self.symbol_ts - datetime.now() > 3 hours.
TTLExpired(ts, clock) == ts - clock > TTL

\* symbols["Match"] = symbols.apply(lambda x: fuzz.ratio(...Symbol...))
ScoreBySymbol(tbl, search) ==
    [cols |-> tbl.cols \cup {"Match"},
     rows |-> [k \in 1..Len(tbl.rows) |->
                 [tbl.rows[k] EXCEPT !.Match = ratio(Lower(search), Lower(tbl.rows[k].Symbol))]]]

\* symbols["Match"] = symbols.apply(lambda x: fuzz.partial_ratio(...Issue_Name...))
ScoreByName(tbl, search) ==
    [cols |-> tbl.cols \cup {"Match"},
     rows |-> [k \in 1..Len(tbl.rows) |->
                 [tbl.rows[k] EXCEPT
                     !.Match = partial_ratio(Lower(search), Lower(tbl.rows[k].Issue_Name))]]]

\* A row goes after the rows whose Match is at least its own: numpy sorts
\* arrays of up to 16 elements by insertion, so equal scores keep their order.
InsertAt(sorted, r, k) ==
    SubSeq(sorted, 1, k) \o <<r>> \o SubSeq(sorted, k + 1, Len(sorted))

InsertDesc(sorted, r) ==
    InsertAt(sorted, r, Cardinality({n \in 1..Len(sorted) : sorted[n].Match >= r.Match}))

RECURSIVE SortPrefix(_, _)
SortPrefix(rows, n) ==
    IF n = 0 THEN <<>> ELSE InsertDesc(SortPrefix(rows, n - 1), rows[n])

\* symbols.sort_values(by="Match", ascending=False, inplace=True)
sort_values(tbl) == [tbl EXCEPT !.rows = SortPrefix(tbl.rows, Len(tbl.rows))]

RECURSIVE SumMatch(_, _)
SumMatch(rows, n) == IF n = 0 THEN 0 ELSE rows[n].Match + SumMatch(rows, n - 1)

\* symbols["Match"].head().sum()
HeadSum(tbl) == SumMatch(tbl.rows, Min(HeadRows, Len(tbl.rows)))

\* Lines 65-71: when the five best ticker scores add up to less than the
\* threshold, the table is scored by issue name and sorted again.
Fallback(bySymbol, search) ==
    IF HeadSum(bySymbol) < MatchThreshold
    THEN sort_values(ScoreByName(bySymbol, search))
    ELSE bySymbol

\* Lines 59-71: score by ticker, sort, fall back.
Ranked(tbl, search) == Fallback(sort_values(ScoreBySymbol(tbl, search)), search)

\* symbols.head(10)
TopRows(rows) == SubSeq(rows, 1, Min(TopResults, Len(rows)))

\* list(zip(list(symbols["Symbol"]), list(symbols["Description"])))
Project(rows) == [k \in 1..Len(rows) |-> <<rows[k].Symbol, rows[k].Description>>]

\* Mutant of CacheStore: the result is not kept.
CacheStore_Skip(cache, search, result) == cache

\* self.searched_symbols[search] = symbol_list
CacheStore(cache, search, result) ==
    [cache EXCEPT ![search] = [cached |-> TRUE, value |-> result]]

\* The record kept of a call.
Call(search, hit, fetched, result) ==
    [valid |-> TRUE, flip |-> 1 - lastSearch.flip, q |-> search, hit |-> hit,
     stale |-> now - symbol_ts > TTL, fetched |-> fetched, result |-> result]

\* Lines 72-75 on the ranked table, which is self.symbol_list itself: a
\* refresh binds self.symbol_list to a new object, scoring and sorting
\* change the object in place.
Finish(search, refetch, ranked, result) ==
    /\ symbol_ts' = IF refetch THEN now ELSE symbol_ts
    /\ fetches' = IF refetch THEN fetches + 1 ELSE fetches
    /\ heap' = IF refetch THEN Append(heap, ranked) ELSE [heap EXCEPT ![cur] = ranked]
    /\ cur' = IF refetch THEN Len(heap) + 1 ELSE cur
    /\ searched_symbols' = CacheStore(searched_symbols, search, result)
    /\ lastSearch' = Call(search, FALSE, refetch, result)
    /\ UNCHANGED now

Uncached(search, refetch, ranked) ==
    Finish(search, refetch, ranked, Project(TopRows(ranked.rows)))

search_symbols(search) ==
    IF searched_symbols[search].cached
    THEN /\ lastSearch' = Call(search, TRUE, FALSE, searched_symbols[search].value)
         /\ UNCHANGED <<heap, cur, symbol_ts, now, searched_symbols, fetches>>
    ELSE \E fresh \in IF TTLExpired(symbol_ts, now) THEN Tables ELSE {symbol_list} :
            Uncached(search, TTLExpired(symbol_ts, now), Ranked(fresh, search))

SearchSymbols ==
    /\ \E search \in Queries : search_symbols(search)
    /\ UNCHANGED <<findVars, concVars, routed, batch>>

\* Time passes between two messages.
Tick ==
    /\ now < MaxTime
    /\ now' = now + 1
    /\ UNCHANGED <<heap, cur, symbol_ts, searched_symbols, fetches, lastSearch>>
    /\ UNCHANGED <<findVars, concVars, routed, batch>>

FindIdle ==
    /\ text = <<>>
    /\ stocks = {}
    /\ coins = {}
    /\ symbols = <<>>
    /\ raised = FALSE
    /\ called = FALSE
    /\ stockList = {}
    /\ cryptoList = {}

\* Symbol.__init__: the table is whatever the FINRA file held at start-up.
InitSearch ==
    /\ FindIdle
    /\ heap \in {<<tbl>> : tbl \in Tables}
    /\ cur = 1
    /\ symbol_ts = 0
    /\ now = 0
    /\ searched_symbols = [q \in Queries |-> NotCached]
    /\ fetches = 0
    /\ lastSearch = NoSearch
    /\ NoCalls

NextSearch == SearchSymbols \/ Tick

SpecSearch == InitSearch /\ [][NextSearch]_vars

-----------------------------------------------------------------------------
(* Symbol.search_symbols, statement by statement, with overlapping callers *)

At(t, where) == th[t].pc = where

Goto(t, where) == th' = [th EXCEPT ![t].pc = where]

\* A caller enters search_symbols(search).
Enter(t) ==
    /\ At(t, "idle")
    /\ \E search \in Queries :
          th' = [th EXCEPT ![t].pc = "lookup", ![t].q = search,
                           ![t].stale = now - symbol_ts > TTL]
    /\ overlap' = (overlap \/ \E u \in Threads : u # t /\ th[u].pc \notin {"idle", "done"})
    /\ UNCHANGED <<findVars, searchVars, routed, batch>>

\* Lines 52-55: the cache lookup.
Lookup(t) ==
    /\ At(t, "lookup")
    /\ th' = IF searched_symbols[th[t].q].cached
             THEN [th EXCEPT ![t].pc = "done", ![t].ret = searched_symbols[th[t].q].value]
             ELSE [th EXCEPT ![t].pc = "ttl", ![t].miss = TRUE]
    /\ UNCHANGED <<findVars, searchVars, overlap, routed, batch>>

\* Lines 56-57: the staleness test and the refresh it guards.
CheckTTL(t) ==
    /\ At(t, "ttl")
    /\ \E fresh \in IF TTLExpired(symbol_ts, now) THEN Tables ELSE {symbol_list} :
          /\ heap' = IF TTLExpired(symbol_ts, now) THEN Append(heap, fresh) ELSE heap
          /\ cur' = IF TTLExpired(symbol_ts, now) THEN Len(heap) + 1 ELSE cur
          /\ symbol_ts' = IF TTLExpired(symbol_ts, now) THEN now ELSE symbol_ts
          /\ fetches' = IF TTLExpired(symbol_ts, now) THEN fetches + 1 ELSE fetches
    /\ Goto(t, "score")
    /\ UNCHANGED <<findVars, now, searched_symbols, lastSearch, overlap, routed, batch>>

\* Lines 59-62: symbols = self.symbol_list; symbols["Match"] = ...
ScoreStep(t) ==
    /\ At(t, "score")
    /\ heap' = [heap EXCEPT ![cur] = ScoreBySymbol(heap[cur], th[t].q)]
    /\ th' = [th EXCEPT ![t].pc = "sort", ![t].alias = cur]
    /\ UNCHANGED <<findVars, cur, symbol_ts, now, searched_symbols, fetches, lastSearch,
                   overlap, routed, batch>>

\* Line 64: symbols.sort_values(..., inplace=True)
SortStep(t) ==
    /\ At(t, "sort")
    /\ heap' = [heap EXCEPT ![th[t].alias] = sort_values(heap[th[t].alias])]
    /\ Goto(t, "head")
    /\ UNCHANGED <<findVars, cur, symbol_ts, now, searched_symbols, fetches, lastSearch,
                   overlap, routed, batch>>

\* Line 65: if symbols["Match"].head().sum() < 300
HeadStep(t) ==
    /\ At(t, "head")
    /\ Goto(t, IF HeadSum(heap[th[t].alias]) < MatchThreshold THEN "rescore" ELSE "finish")
    /\ UNCHANGED <<findVars, searchVars, overlap, routed, batch>>

\* Lines 66-69: symbols["Match"] = ... partial_ratio on the issue name
RescoreStep(t) ==
    /\ At(t, "rescore")
    /\ heap' = [heap EXCEPT ![th[t].alias] = ScoreByName(heap[th[t].alias], th[t].q)]
    /\ Goto(t, "resort")
    /\ UNCHANGED <<findVars, cur, symbol_ts, now, searched_symbols, fetches, lastSearch,
                   overlap, routed, batch>>

\* Line 71: the second sort_values
ResortStep(t) ==
    /\ At(t, "resort")
    /\ heap' = [heap EXCEPT ![th[t].alias] = sort_values(heap[th[t].alias])]
    /\ Goto(t, "finish")
    /\ UNCHANGED <<findVars, cur, symbol_ts, now, searched_symbols, fetches, lastSearch,
                   overlap, routed, batch>>

\* Lines 72-75: head(10), the projection, the cache store and the return.
FinishStep(t) ==
    /\ At(t, "finish")
    /\ searched_symbols' =
          CacheStore(searched_symbols, th[t].q, Project(TopRows(heap[th[t].alias].rows)))
    /\ th' = [th EXCEPT ![t].pc = "done",
                        ![t].ret = Project(TopRows(heap[th[t].alias].rows))]
    /\ UNCHANGED <<findVars, heap, cur, symbol_ts, now, fetches, lastSearch, overlap,
                   routed, batch>>

\* The callers start some hours after the table was fetched.
InitConc ==
    /\ FindIdle
    /\ heap \in {<<Table(1, j)>> : j \in 1..MaxRows}
    /\ cur = 1
    /\ symbol_ts = 0
    /\ now \in 0..MaxTime
    /\ searched_symbols = [q \in Queries |-> NotCached]
    /\ fetches = 0
    /\ lastSearch = NoSearch
    /\ NoCalls

NextConc ==
    \E t \in Threads :
        \/ Enter(t)
        \/ Lookup(t)
        \/ CheckTTL(t)
        \/ ScoreStep(t)
        \/ SortStep(t)
        \/ HeadStep(t)
        \/ RescoreStep(t)
        \/ ResortStep(t)
        \/ FinishStep(t)

SpecConc == InitConc /\ [][NextConc]_vars

-----------------------------------------------------------------------------
(* Router.price_reply, dividend_reply, news_reply, info_reply, stat_reply *)

\* What a caller may put in the list: Stock and Coin objects, and something
\* that is neither (a bare string).
Objects ==
    {Stock(<<"a">>), Stock(<<"b">>), Coin(<<"a">>), [class |-> "str", symbol |-> <<"a">>]}

\* self.stock.<op>_reply(symbol): the reply of the stock backend client,
\* data or a not-found message.
StockBackend(op, symbol, found) ==
    [from |-> "stock", op |-> op, symbol |-> symbol, found |-> found]

\* self.crypto.<op>_reply(symbol): the reply of the crypto backend client.
CryptoBackend(op, symbol, found) ==
    [from |-> "crypto", op |-> op, symbol |-> symbol, found |-> found]

\* Mutant of CoinReply: every operation asks the crypto backend.
CoinReply_AlwaysBackend(op, symbol, found) == CryptoBackend(op, symbol, found)

\* The elif isinstance(symbol, Coin) branch of each operation.
CoinReply(op, symbol, found) ==
    IF op = "dividend"
    THEN [from |-> "router", text |-> "Cryptocurrencies do no have Dividends."]
    ELSE IF op = "news"
    THEN [from |-> "router", text |-> "News is not yet supported for cryptocurrencies."]
    ELSE CryptoBackend(op, symbol, found)

\* Mutant of RouteStep: the else branch appends a message as well.
RouteStep_AppendUnknown(op, replies, symbol, found) ==
    IF symbol.class = "Stock"
    THEN Append(replies, StockBackend(op, symbol, found))
    ELSE IF symbol.class = "Coin"
    THEN Append(replies, CoinReply(op, symbol, found))
    ELSE Append(replies, [from |-> "router", text |-> "is not a Stock or Coin"])

\* One pass of the loop "for symbol in symbols".
RouteStep(op, replies, symbol, found) ==
    IF symbol.class = "Stock"
    THEN Append(replies, StockBackend(op, symbol, found))
    ELSE IF symbol.class = "Coin"
    THEN Append(replies, CoinReply(op, symbol, found))
    ELSE replies

\* replies after the first n passes of the loop.
RECURSIVE Route(_, _, _, _)
Route(op, input, outcome, n) ==
    IF n = 0
    THEN <<>>
    ELSE RouteStep(op, Route(op, input, outcome, n - 1), input[n], outcome[n])

Inputs == UNION {[1..n -> Objects] : n \in 0..MaxBatch}

Reply(op) ==
    /\ \E input \in Inputs :
          \E outcome \in [1..Len(input) -> BOOLEAN] :
              routed' = [valid |-> TRUE, op |-> op, input |-> input, outcome |-> outcome,
                         output |-> Route(op, input, outcome, Len(input))]
    /\ UNCHANGED <<findVars, searchVars, concVars, batch>>

Router_price_reply == ~routed.valid /\ Reply("price")

Router_dividend_reply == ~routed.valid /\ Reply("dividend")

Router_news_reply == ~routed.valid /\ Reply("news")

Router_info_reply == ~routed.valid /\ Reply("info")

Router_stat_reply == ~routed.valid /\ Reply("stat")

\* The caller has sent the replies; the bot waits for the next message.
RouterReturn ==
    /\ routed.valid
    /\ routed' = NoRoute
    /\ UNCHANGED <<findVars, searchVars, concVars, batch>>

InitRouter ==
    /\ FindIdle
    /\ SearchIdle
    /\ NoCalls

NextRouter ==
    \/ Router_price_reply
    \/ Router_dividend_reply
    \/ Router_news_reply
    \/ Router_info_reply
    \/ Router_stat_reply
    \/ RouterReturn

SpecRouter == InitRouter /\ [][NextRouter]_vars

-----------------------------------------------------------------------------
(* Symbol.price_reply, dividend_reply, news_reply, info_reply (functions.py) *)

\* The symbols a message can name: find_symbols returns list(set(...)), so
\* a list holds each of them at most once.
BatchSymbols == {<<"a">>, <<"b">>, <<"A">>}

SymbolLists == UNION {Orderings(S) : S \in SUBSET BatchSymbols}

\* What r.get(IEXurl) can do: answer 200, answer another status, or raise
\* (no connection; no timeout is set, so a dead connection never answers).
HttpOutcomes == {"200", "404", "raise"}

NoMessage == [set |-> FALSE, op |-> "", symbol |-> <<>>, found |-> FALSE]

\* The message the loop stores for a symbol whose request was answered.
Message(op, symbol, status) ==
    [set |-> TRUE, op |-> op, symbol |-> symbol, found |-> (status = "200")]

\* One pass of the loop "for symbol in symbols": an exception of r.get is
\* not caught, and ends the loop and the call.
BatchStep(op, sofar, symbol, status) ==
    IF sofar.raised \/ status = "raise"
    THEN [raised |-> TRUE, messages |-> sofar.messages]
    ELSE [raised |-> FALSE,
          messages |-> [sofar.messages EXCEPT ![symbol] = Message(op, symbol, status)]]

RECURSIVE BatchLoop(_, _, _, _)
BatchLoop(op, syms, outcome, n) ==
    IF n = 0
    THEN [raised |-> FALSE, messages |-> [x \in BatchSymbols |-> NoMessage]]
    ELSE BatchStep(op, BatchLoop(op, syms, outcome, n - 1), syms[n], outcome[n])

\* The call returns the dictionary, or ends in the exception.
BatchResult(op, syms, outcome, end) ==
    [valid |-> TRUE, op |-> op, symbols |-> syms, outcome |-> outcome,
     raised |-> end.raised,
     messages |-> IF end.raised THEN <<>> ELSE end.messages]

BatchReply(op) ==
    /\ \E syms \in SymbolLists :
          \E outcome \in [1..Len(syms) -> HttpOutcomes] :
              batch' = BatchResult(op, syms, outcome, BatchLoop(op, syms, outcome, Len(syms)))
    /\ UNCHANGED <<findVars, searchVars, concVars, routed>>

Symbol_price_reply == ~batch.valid /\ BatchReply("price")

Symbol_dividend_reply == ~batch.valid /\ BatchReply("dividend")

Symbol_news_reply == ~batch.valid /\ BatchReply("news")

Symbol_info_reply == ~batch.valid /\ BatchReply("info")

\* The handler has sent the replies (or the dispatcher has logged the error).
BatchReturn ==
    /\ batch.valid
    /\ batch' = NoBatch
    /\ UNCHANGED <<findVars, searchVars, concVars, routed>>

InitBatch ==
    /\ FindIdle
    /\ SearchIdle
    /\ NoCalls

NextBatch ==
    \/ Symbol_price_reply
    \/ Symbol_dividend_reply
    \/ Symbol_news_reply
    \/ Symbol_info_reply
    \/ BatchReturn

SpecBatch == InitBatch /\ [][NextBatch]_vars

-----------------------------------------------------------------------------
(* Claims about Router.find_symbols *)

\* C1: the list returned by find_symbols holds no two Stock entries whose
\* tickers are equal under case-insensitive comparison and no two Coin
\* entries with the same symbol.
C1_NoDuplicateSymbols ==
    (called /\ ~raised) =>
        \A i, j \in 1..Len(symbols) :
            (i # j /\ symbols[i].class = symbols[j].class) =>
                Upper(symbols[i].symbol) # Upper(symbols[j].symbol)

\* The "$" at position i is not immediately preceded by another "$".
SingleDollarAt(t, i) == t[i] = "$" /\ (i = 1 \/ t[i - 1] # "$")

\* The "$" at position i is immediately preceded by another "$".
DoubleDollarAt(t, i) == i > 1 /\ t[i] = "$" /\ t[i - 1] = "$"

LettersAfter(t, i, max) == SubSeq(t, i + 1, i + RunLen(t, i + 1, max))

\* The letter runs (first 1 to 4 letters) after each single "$".
SingleDollarTokens(t) ==
    {LettersAfter(t, i, 4) :
        i \in {k \in 1..Len(t) : SingleDollarAt(t, k) /\ RunLen(t, k + 1, 4) > 0}}

\* The letter runs (first 1 to 9 letters) after each "$$".
DoubleDollarTokens(t) ==
    {LettersAfter(t, i, 9) :
        i \in {k \in 1..Len(t) : DoubleDollarAt(t, k) /\ RunLen(t, k + 1, 9) > 0}}

\* The two halves of C2 that speak of what is never produced.
NeverCrossMatch ==
    called => /\ stocks \subseteq SingleDollarTokens(text)
              /\ coins \subseteq DoubleDollarTokens(text)

\* C2: letters after "$$" are never a stock candidate, letters after a
\* single "$" are never a coin candidate, and a text that contains both
\* "$abc" and "$$abc" yields abc as a stock candidate and as a coin candidate.
C2_NoCrossMatch ==
    called =>
        /\ stocks \subseteq SingleDollarTokens(text)
        /\ coins \subseteq DoubleDollarTokens(text)
        /\ \A tok \in SingleDollarTokens(text) \cap DoubleDollarTokens(text) :
              tok \in stocks /\ tok \in coins

\* C3: find_symbols returns a Stock only for a token whose upper-cased form
\* is in the stock reference list and a Coin only for a token whose
\* lower-cased form is in the crypto reference list; every token that is in
\* the list is returned, and a call never raises on account of absent tokens.
C3_ReferenceListFilter ==
    called =>
        /\ ~raised =>
            /\ \A i \in 1..Len(symbols) :
                  /\ symbols[i].class = "Stock" =>
                        /\ symbols[i].symbol \in stocks
                        /\ Upper(symbols[i].symbol) \in stockList
                  /\ symbols[i].class = "Coin" =>
                        /\ symbols[i].symbol \in cryptoList
                        /\ \E c \in coins : Lower(c) = symbols[i].symbol
            /\ \A s \in stocks : Upper(s) \in stockList =>
                  \E i \in 1..Len(symbols) : symbols[i] = Stock(s)
            /\ \A c \in coins : Lower(c) \in cryptoList =>
                  \E i \in 1..Len(symbols) : symbols[i] = Coin(Lower(c))
        /\ raised => \E c \in coins : Lower(c) \in cryptoList

\* A call that returned a Stock for a listed token and dropped an unlisted one.
C3_Witness ==
    /\ called /\ ~raised
    /\ \E i \in 1..Len(symbols) :
          symbols[i].class = "Stock" /\ symbols[i].symbol # Upper(symbols[i].symbol)
    /\ \E s \in stocks : Upper(s) \notin stockList

\* C10: the stock candidates are exactly the letter runs (first 1 to 4
\* letters) after each "$" that is not immediately preceded by another "$".
C10_StockCandidatesExact ==
    called => stocks = SingleDollarTokens(text)

-----------------------------------------------------------------------------
(* Claims about Symbol.search_symbols *)

\* C4: an uncached search made more than TTL hours after the last fetch
\* re-fetches the reference list, and an uncached search made earlier does not.
C4_RefreshWhenStale ==
    (lastSearch.valid /\ ~lastSearch.hit) =>
        (lastSearch.fetched <=> lastSearch.stale)

C6_ExactTickerFirst ==
    (/\ lastSearch.valid
     /\ ~lastSearch.hit
     /\ \E k \in 1..Len(symbol_list.rows) : symbol_list.rows[k].Symbol = lastSearch.q)
    => lastSearch.result[1][1] = lastSearch.q

\* C8: when overlapping uncached searches all start with a stale reference
\* list, exactly one fetch of the list has been made once they have returned.
C8_ExactlyOneRefresh ==
    (/\ overlap
     /\ \A t \in Threads : th[t].pc = "done" /\ th[t].miss /\ th[t].stale)
    => fetches = 1

\* C11: a search_symbols call that makes no TTL refresh leaves the shared
\* reference table as it was: the same columns and the same rows in the same
\* order.
C11_SearchOnlyReads ==
    [][(lastSearch'.flip # lastSearch.flip /\ ~lastSearch'.fetched)
          => symbol_list' = symbol_list]_vars

-----------------------------------------------------------------------------
(* Claims about the reply operations *)

IsSymbol(x) == x.class \in {"Stock", "Coin"}

\* The positions of the input that hold a Stock or a Coin, in order.
RECURSIVE ValidPositions(_, _)
ValidPositions(input, n) ==
    IF n = 0 THEN <<>>
    ELSE IF IsSymbol(input[n])
         THEN Append(ValidPositions(input, n - 1), n)
         ELSE ValidPositions(input, n - 1)

\* The reply due to the symbol at position i of the input.
ReplyFor(r, i) ==
    IF r.input[i].class = "Stock"
    THEN StockBackend(r.op, r.input[i], r.outcome[i])
    ELSE CoinReply(r.op, r.input[i], r.outcome[i])

\* C7: the list a Router reply operation returns is never longer than its
\* input; it holds, in input order, one reply for each Stock or Coin of the
\* input and nothing for any other element, so an input of Stocks and Coins
\* only gets a list of its own length whose i-th reply is that of its i-th symbol.
C7_RouterOutput ==
    routed.valid =>
        LET pos == ValidPositions(routed.input, Len(routed.input))
        IN  /\ Len(routed.output) <= Len(routed.input)
            /\ Len(routed.output) = Len(pos)
            /\ \A k \in 1..Len(pos) : routed.output[k] = ReplyFor(routed, pos[k])
            /\ (\A i \in 1..Len(routed.input) : IsSymbol(routed.input[i])) =>
                  /\ Len(routed.output) = Len(routed.input)
                  /\ \A i \in 1..Len(routed.input) : routed.output[i] = ReplyFor(routed, i)

\* A call whose input mixes a Stock, a Coin and an element that is neither,
\* the latter not in last place.
C7_Witness ==
    /\ routed.valid
    /\ Len(routed.input) = 3
    /\ ~IsSymbol(routed.input[1])
    /\ routed.input[2].class = "Coin"
    /\ routed.input[3].class = "Stock"
    /\ Len(routed.output) = 2

\* C9: a batch reply call never ends in an exception, and every symbol of
\* the batch gets a message, a not-found one when its request did not succeed.
C9_FailureIsolated ==
    batch.valid =>
        /\ ~batch.raised
        /\ \A i \in 1..Len(batch.symbols) :
              /\ batch.messages[batch.symbols[i]].set
              /\ batch.messages[batch.symbols[i]].found = (batch.outcome[i] = "200")

\* The operations that have no crypto counterpart.
StockOnlyOps == {"dividend", "news"}

\* The replies of the output that a backend client produced.
BackendReplies(r) ==
    {k \in 1..Len(r.output) : r.output[k].from \in {"stock", "crypto"}}

\* C12: in dividend_reply and news_reply the reply for a Coin is the fixed
\* text of the operation, no reply of the call comes from the crypto backend
\* and none from the stock backend is about a Coin, while the reply for a
\* Stock is the stock backend's reply for that Stock.
C12_CoinFixedReply ==
    (routed.valid /\ routed.op \in StockOnlyOps) =>
        LET pos == ValidPositions(routed.input, Len(routed.input))
        IN  /\ Len(routed.output) = Len(pos)
            /\ \A k \in 1..Len(pos) :
                  /\ routed.input[pos[k]].class = "Coin" =>
                        /\ routed.output[k].from = "router"
                        /\ routed.op = "dividend" =>
                              routed.output[k].text = "Cryptocurrencies do no have Dividends."
                        /\ routed.op = "news" =>
                              routed.output[k].text
                                  = "News is not yet supported for cryptocurrencies."
                  /\ routed.input[pos[k]].class = "Stock" =>
                        routed.output[k]
                            = StockBackend(routed.op, routed.input[pos[k]],
                                           routed.outcome[pos[k]])
            /\ \A k \in BackendReplies(routed) :
                  /\ routed.output[k].from = "stock"
                  /\ routed.output[k].symbol.class = "Stock"

\* A news call on a Coin followed by a Stock: a fixed text, then the stock
\* backend's reply.
C12_Witness ==
    /\ routed.valid
    /\ routed.op = "news"
    /\ Len(routed.input) = 2
    /\ routed.input[1].class = "Coin"
    /\ routed.input[2].class = "Stock"
    /\ Len(routed.output) = 2
    /\ routed.output[1].from = "router"
    /\ routed.output[2].from = "stock"

====
